---- MODULE Spec2Model ----
(***************************************************************************)
(* Model of the two to-do list managers of the repository:                 *)
(*   src/todo_cli.py  text-only manager, tasks are JSON dictionaries       *)
(*   src/todo.py      windowed manager with a text mode, tasks are Task    *)
(*                    objects converted with to_dict before every save     *)
(* Both share one backing file, tasks.json, which outlives a program run.  *)
(***************************************************************************)
EXTENDS Integers, Sequences, FiniteSets, TLC

\* ------------------------------------------------------------- bounds
MaxTasks == 1       \* tasks an add may find in the store
MaxLen   == 2       \* tasks of a collection handed to a function called on its own
MaxDay   == 5       \* the latest day taken as today, counted from 2024-02-26

\* ---------------------------------------------------------- constants
Absent == "<absent>"            \* a key the dictionary does not have
None   == "<None>"              \* Python None / JSON null
PRIORITY_LEVELS  == <<"low", "medium", "high">>
DEFAULT_PRIORITY == PRIORITY_LEVELS[2]
CATEGORY_OPTIONS == <<"General", "Work", "Personal", "Urgent">>
DEFAULT_CATEGORY == CATEGORY_OPTIONS[1]

SeqToSet(s) == {s[i] : i \in DOMAIN s}

\* ------------------------------------------------- strings as Python sees them
\* str.strip() on the strings the model types in
Strip(s) ==
  CASE s = " "    -> ""
    [] s = " a "  -> "a"
    [] s = " 1 "  -> "1"
    [] OTHER      -> s

\* str.lower() on the strings the model types in
Lower(s) ==
  CASE s = "HIGH"   -> "high"
    [] s = "High"   -> "high"
    [] s = "LOW"    -> "low"
    [] s = "MEDIUM" -> "medium"
    [] s = "Medium" -> "medium"
    [] s = "H"      -> "h"
    [] s = "W"      -> "w"
    [] s = "Y"      -> "y"
    [] s = "S"      -> "s"
    [] s = "C"      -> "c"
    [] s = "L"      -> "l"
    [] s = "Work"   -> "work"
    [] s = "General"  -> "general"
    [] s = "Personal" -> "personal"
    [] s = "Urgent"   -> "urgent"
    [] OTHER        -> s

\* len(s) == 1 and s[0] for the strings the model types in
FirstChar(s) ==
  CASE s \in {"h", "high"}        -> "h"
    [] s \in {"l", "low"}         -> "l"
    [] s \in {"m", "medium"}      -> "m"
    [] s \in {"g", "general"}     -> "g"
    [] s \in {"w", "work"}        -> "w"
    [] s \in {"p", "personal"}    -> "p"
    [] s \in {"u", "urgent"}      -> "u"
    [] OTHER                      -> s

IsOneChar(s) == s \in {"h", "l", "m", "g", "w", "p", "u", "x", "y", "n"}

\* Python truthiness of a string-or-None value (a missing key reads as None)
Truthy(v) == v \notin {Absent, None, ""}

\* int(s): the decimal numerals the model types, surrounding blanks allowed
Numerals == <<"1", "2", "3", "4", "5", "6">>
ParseInt(s) ==
  LET t == Strip(s) IN
  IF \E i \in DOMAIN Numerals : Numerals[i] = t
    THEN [ok |-> TRUE,  val |-> CHOOSE i \in DOMAIN Numerals : Numerals[i] = t]
    ELSE [ok |-> FALSE, val |-> 0]

\* datetime.strptime(raw, "%Y-%m-%d").date().strftime("%Y-%m-%d"):
\* unpadded fields parse and are written back zero-padded
parse_date_input(raw) ==
  LET r == Strip(raw) IN
  CASE r = ""            -> None
    [] r = "2024-03-01"  -> "2024-03-01"
    [] r = "2024-3-1"    -> "2024-03-01"
    [] OTHER             -> None

\* ------------------------------------------------------------- records
\* A dictionary as json.load returns it and json.dump writes it.
Dict(id, title, description, category, priority, completed, due, created) ==
  [id |-> id, title |-> title, description |-> description,
   category |-> category, priority |-> priority, completed |-> completed,
   due_date |-> due, created_at |-> created]

\* Task.__init__ of todo.py without the priority normalisation and the clock
TaskObj(id, title, description, category, priority, completed, created) ==
  [id |-> id, title |-> title, description |-> description,
   category |-> category, priority |-> priority, completed |-> completed,
   created_at |-> created]

to_dict(t) ==
  Dict(t.id, t.title, t.description, t.category, t.priority, t.completed,
       Absent, t.created_at)

ToDicts(ts) == [i \in DOMAIN ts |-> to_dict(ts[i])]

\* a match of the value as typed, without lower-casing it
normalize_priority_exact(value) ==
  IF value \in SeqToSet(PRIORITY_LEVELS) THEN value ELSE DEFAULT_PRIORITY

normalize_priority(value) ==
  IF ~Truthy(value) THEN DEFAULT_PRIORITY
  ELSE LET v == Lower(value) IN
       IF \E i \in DOMAIN PRIORITY_LEVELS : Lower(PRIORITY_LEVELS[i]) = v
         THEN PRIORITY_LEVELS[CHOOSE i \in DOMAIN PRIORITY_LEVELS :
                                 Lower(PRIORITY_LEVELS[i]) = v]
         ELSE DEFAULT_PRIORITY

Task(id, title, description, category, priority, completed, now) ==
  TaskObj(id, title, description, category, normalize_priority(priority),
          completed, now)

\* max(task.get("id", 0) for task in tasks) + 1, or 1 for no tasks
RECURSIVE MaxIdOf(_)
MaxIdOf(ds) ==
  IF ds = <<>> THEN 0
  ELSE LET m == MaxIdOf(Tail(ds)) IN IF Head(ds).id > m THEN Head(ds).id ELSE m

\* an id counted from the number of tasks instead of the largest id
next_task_id_count(ds) == Len(ds) + 1

next_task_id(ds) == IF ds = <<>> THEN 1 ELSE MaxIdOf(ds) + 1

\* a search that falls out of its loop still holding the last task looked at
FindTask_fallthrough(ts, tid) ==
  IF \E i \in DOMAIN ts : ts[i].id = tid
    THEN CHOOSE i \in DOMAIN ts :
           ts[i].id = tid /\ \A j \in 1..(i - 1) : ts[j].id # tid
    ELSE Len(ts)

\* the id searches of both programs: index of the first task with this id,
\* 0 when there is none
FindTask(ts, tid) ==
  IF \E i \in DOMAIN ts : ts[i].id = tid
    THEN CHOOSE i \in DOMAIN ts :
           ts[i].id = tid /\ \A j \in 1..(i - 1) : ts[j].id # tid
    ELSE 0

RemoveAt(s, i) == SubSeq(s, 1, i - 1) \o SubSeq(s, i + 1, Len(s))

RECURSIVE RemoveId(_, _)
RemoveId(ts, tid) ==
  IF ts = <<>> THEN <<>>
  ELSE IF Head(ts).id = tid THEN RemoveId(Tail(ts), tid)
       ELSE <<Head(ts)>> \o RemoveId(Tail(ts), tid)

Ids(ts) == {ts[i].id : i \in DOMAIN ts}

\* ------------------------------------------------------------ the file
NoFile(kind) == [kind |-> kind, recs |-> <<>>]
ListFile(recs) == [kind |-> "list", recs |-> recs]

\* what json.load hands back, or the exception that leaves load_tasks
\*   absent      os.path.exists is false
\*   unreadable  open raises OSError
\*   badjson     json.load raises JSONDecodeError
\*   badutf8     the read raises UnicodeDecodeError
\*   scalar      valid JSON that is no list (a number, null)
\*   list        a JSON list of task dictionaries
cli_load_tasks(f) ==
  CASE f.kind \in {"absent", "unreadable", "badjson"}
         -> [raised |-> FALSE, isList |-> TRUE, recs |-> <<>>]
    [] f.kind = "badutf8"
         -> [raised |-> TRUE, isList |-> FALSE, recs |-> <<>>]
    [] f.kind = "scalar"
         -> [raised |-> FALSE, isList |-> FALSE, recs |-> <<>>]
    [] OTHER
         -> [raised |-> FALSE, isList |-> TRUE, recs |-> f.recs]

gui_load_tasks(f) ==
  CASE f.kind \in {"absent", "unreadable", "badjson", "badutf8"}
         -> [raised |-> FALSE, isList |-> TRUE, recs |-> <<>>]
    [] f.kind = "scalar"
         -> [raised |-> FALSE, isList |-> FALSE, recs |-> <<>>]
    [] OTHER
         -> [raised |-> FALSE, isList |-> TRUE, recs |-> f.recs]

\* the conversion loop of todo.py's __main__
FromDict(d, now) ==
  LET title == IF Truthy(d.title) THEN d.title
               ELSE IF Truthy(d.description) THEN d.description
               ELSE "Untitled"
      desc  == IF Truthy(d.description) THEN d.description ELSE ""
      cat   == IF Truthy(d.category) THEN d.category ELSE "General"
      priority == normalize_priority(d.priority)
  IN Task(d.id, title, desc, cat, priority, d.completed, now)

FromDicts(ds, now) == [i \in DOMAIN ds |-> FromDict(ds[i], now)]


\* --------------------------------------------------------------- state
VARIABLES
  file,      \* tasks.json: [kind, recs]
  prog,      \* the program of the current run: "todo_cli" or "todo"
  pc,        \* "off", "startup", "gui", "menu", "exited", "crashed"
  tasks,     \* the in-memory collection of the current run
  clock,     \* datetime.now(), in minutes
  fails,     \* 1 once a write of the backing file has failed, else 0
  out,       \* the last message that handler printed or showed
  idIn,      \* the task id typed into that handler, NoInput when none was read
  assigned,  \* the ids tasks of the store have held so far
  call       \* a function of the programs called on its own: name, arguments,
             \* result; NoCall while a program runs

vars == <<file, prog, pc, tasks, clock, fails, out, idIn, assigned, call>>

NoCall == [fn |-> "none"]

NoInput == "<no input>"
Stopped == {"off", "exited", "crashed"}

\* ----------------------------------------------------- what the user types
MaxId == MaxTasks + 1
\* the minutes at which a program may be started; the next run starts no
\* earlier, and the tasks added within one run are stamped with its minute
Minutes     == {0, 1}
IdInputs    == {Numerals[i] : i \in 1..MaxId} \cup {"x", " 1 "}
YesNoInputs == {"Y", ""}

\* add_task of todo_cli.py: description, due-date answers, priority answers
CliAddInputs ==
  { [desc |-> " ",   dues |-> <<"">>, pris |-> <<"">>],
    [desc |-> " a ", dues |-> <<"bad", " ">>, pris |-> <<"zzz", "">>] }

\* edit_task of todo_cli.py: description, due-date answers, change priority?,
\* priority answers
CliEditInputs ==
  { [desc |-> " ", dues |-> <<"">>, change |-> "",  pris |-> <<>>],
    [desc |-> "b", dues |-> <<"bad", "2024-3-1">>, change |-> "Y",
     pris |-> <<"zzz", "HIGH">>] }

\* ---------------------------------------------- the backing file at first start
\* r_cli and r_gui are records as todo_cli.py and todo.py write them for a task
\* created at minute 0; r_dup and r_odd are records only an editor of the file
\* writes: a second record of id 1, and a priority outside the three levels
r_cli == Dict(1, Absent, "a", Absent, "high", FALSE, "2024-03-01", 0)
r_gui == Dict(1, "a", "", "Work", "medium", TRUE, Absent, 0)
r_dup == Dict(1, Absent, "b", Absent, "low", FALSE, None, 0)
r_odd == Dict(1, Absent, "a", Absent, "urgent", FALSE, None, 0)

InitFiles ==
  {NoFile(k) : k \in {"absent", "unreadable", "badjson", "badutf8", "scalar"}}
  \cup {ListFile(<<r_cli>>), ListFile(<<r_gui>>), ListFile(<<r_cli, r_dup>>),
        ListFile(<<r_odd>>)}

Init ==
  /\ file \in InitFiles
  /\ prog = "todo_cli"
  /\ pc = "off"
  /\ tasks = <<>>
  /\ clock = 0
  /\ fails = 0
  /\ out = ""
  /\ idIn = NoInput
  /\ assigned = {}
  /\ call = NoCall

\* ------------------------------------------------------------- writing
\* open(path, "w") and json.dump: the write succeeds, or it fails with OSError
\* after open has truncated the file, which leaves no valid JSON behind
WriteOutcomes == {"ok", "partial"}

Written(recs, o) == IF o = "ok" THEN ListFile(recs) ELSE NoFile("badjson")

Failed(o) == IF o = "ok" THEN fails ELSE 1

\* save_tasks of todo_cli.py: OSError is caught and printed
cli_save_tasks(recs, o) ==
  /\ file' = Written(recs, o)
  /\ fails' = Failed(o)

NoSave == UNCHANGED <<file, fails>>

\* =========================================================== todo_cli.py

RECURSIVE prompt_priority(_, _)
prompt_priority(default, inputs) ==
  IF inputs = <<>> THEN default
  ELSE LET raw == Lower(Strip(Head(inputs))) IN
       IF raw = "" THEN default
       ELSE IF raw \in SeqToSet(PRIORITY_LEVELS) THEN raw
       ELSE prompt_priority(default, Tail(inputs))

\* the due-date loops of add_task and edit_task: blank keeps `current`
RECURSIVE due_loop(_, _)
due_loop(current, inputs) ==
  IF inputs = <<>> THEN current
  ELSE IF Strip(Head(inputs)) = "" THEN current
  ELSE LET parsed == parse_date_input(Head(inputs)) IN
       IF parsed # None THEN parsed ELSE due_loop(current, Tail(inputs))

\* python todo_cli.py: main() up to the first menu prompt; show_suite calls
\* len() on what load_tasks returned
cli_main ==
  /\ pc = "off" \/ (pc \in Stopped /\ prog = "todo_cli")
  /\ \E now \in Minutes :
       /\ now >= clock
       /\ clock' = now
  /\ prog' = "todo_cli"
  /\ LET r == cli_load_tasks(file) IN
       IF r.raised \/ ~r.isList
         THEN /\ pc' = "crashed"
              /\ tasks' = <<>>
              /\ out' = "Traceback"
              /\ assigned' = assigned
         ELSE /\ pc' = "menu"
              /\ tasks' = r.recs
              /\ out' = IF file.kind \in {"unreadable", "badjson"}
                          THEN "Warning: Could not read tasks file."
                          ELSE "Welcome"
              /\ assigned' = assigned \cup Ids(r.recs)
  /\ idIn' = NoInput
  /\ UNCHANGED <<call, file, fails>>

InCliMenu == pc = "menu" /\ prog = "todo_cli"

cli_new_task(ts, in, now) ==
  Dict(next_task_id(ts), Absent, Strip(in.desc), Absent,
       prompt_priority("medium", in.pris), FALSE, due_loop(None, in.dues), now)

cli_add_task ==
  /\ InCliMenu
  /\ \E in \in CliAddInputs :
       IF Strip(in.desc) = ""
         THEN /\ out' = "Description cannot be empty."
              /\ NoSave
              /\ UNCHANGED <<tasks, assigned>>
         ELSE \E o \in WriteOutcomes :
                LET task == cli_new_task(tasks, in, clock) IN
                /\ Len(tasks) < MaxTasks
                /\ task.id <= MaxId
                /\ tasks' = Append(tasks, task)
                /\ cli_save_tasks(tasks', o)
                /\ out' = "Task added."
                /\ assigned' = assigned \cup {task.id}
  /\ idIn' = NoInput
  /\ UNCHANGED <<call, prog, pc, clock>>

\* select_task: the index of the chosen task, 0 with the message printed
select_task(ts, typed) ==
  IF ts = <<>> THEN [at |-> 0, msg |-> "No tasks available.", read |-> FALSE]
  ELSE LET n == ParseInt(typed) IN
       IF ~n.ok THEN [at |-> 0, msg |-> "Invalid ID.", read |-> TRUE]
       ELSE IF FindTask(ts, n.val) = 0
         THEN [at |-> 0, msg |-> "Task not found.", read |-> TRUE]
         ELSE [at |-> FindTask(ts, n.val), msg |-> "", read |-> TRUE]

cli_mark_task_completed ==
  /\ InCliMenu
  /\ \E typed \in IdInputs :
       LET s == select_task(tasks, typed) IN
       /\ idIn' = IF s.read THEN typed ELSE NoInput
       /\ IF s.at = 0
            THEN /\ out' = s.msg
                 /\ NoSave
                 /\ UNCHANGED tasks
            ELSE \E o \in WriteOutcomes :
                   /\ tasks' = [tasks EXCEPT ![s.at].completed = TRUE]
                   /\ cli_save_tasks(tasks', o)
                   /\ out' = "Task marked as completed."
  /\ UNCHANGED <<call, prog, pc, clock, assigned>>

\* an edit that hands the task back as a pending one
cli_edited_reopened(task, in) ==
  [task EXCEPT !.description = Strip(in.desc), !.completed = FALSE]

cli_edited(task, in) ==
  LET new_desc == Strip(in.desc)
      t1 == IF new_desc # "" THEN [task EXCEPT !.description = new_desc]
            ELSE task
      t2 == [t1 EXCEPT !.due_date = due_loop(task.due_date, in.dues)]
  IN IF Lower(Strip(in.change)) = "y"
       THEN [t2 EXCEPT !.priority =
               prompt_priority(IF task.priority = Absent THEN "medium"
                               ELSE task.priority, in.pris)]
       ELSE t2

cli_edit_task ==
  /\ InCliMenu
  /\ \E typed \in IdInputs :
       LET s == select_task(tasks, typed) IN
       /\ idIn' = IF s.read THEN typed ELSE NoInput
       /\ IF s.at = 0
            THEN /\ out' = s.msg
                 /\ NoSave
                 /\ UNCHANGED tasks
            ELSE \E in \in CliEditInputs, o \in WriteOutcomes :
                   /\ tasks' = [tasks EXCEPT ![s.at] = cli_edited(tasks[s.at], in)]
                   /\ cli_save_tasks(tasks', o)
                   /\ out' = "Task updated."
  /\ UNCHANGED <<call, prog, pc, clock, assigned>>

cli_delete_task ==
  /\ InCliMenu
  /\ \E typed \in IdInputs :
       LET s == select_task(tasks, typed) IN
       /\ idIn' = IF s.read THEN typed ELSE NoInput
       /\ IF s.at = 0
            THEN /\ out' = s.msg
                 /\ NoSave
                 /\ UNCHANGED tasks
            ELSE \E confirm \in YesNoInputs :
                   IF Lower(Strip(confirm)) = "y"
                     THEN \E o \in WriteOutcomes :
                            /\ tasks' = RemoveAt(tasks, s.at)
                            /\ cli_save_tasks(tasks', o)
                            /\ out' = "Task deleted."
                     ELSE /\ out' = "Deletion cancelled."
                          /\ NoSave
                          /\ UNCHANGED tasks
  /\ UNCHANGED <<call, prog, pc, clock, assigned>>

\* menu choice 2 (view) and any unknown choice: nothing but output
cli_view_or_invalid ==
  /\ InCliMenu
  /\ \E choice \in {"2", "7"} :
       out' = IF choice = "2" THEN "View Tasks:"
             ELSE "Invalid option. Please choose 1-6."
  /\ NoSave
  /\ idIn' = NoInput
  /\ UNCHANGED <<call, prog, pc, tasks, clock, assigned>>

\* menu choice 6: Goodbye and break, nothing is written
cli_exit ==
  /\ InCliMenu
  /\ pc' = "exited"
  /\ NoSave
  /\ out' = "Goodbye!"
  /\ idIn' = NoInput
  /\ UNCHANGED <<call, prog, tasks, clock, assigned>>

CliNext ==
  \/ cli_main
  \/ cli_add_task
  \/ cli_mark_task_completed
  \/ cli_edit_task
  \/ cli_delete_task
  \/ cli_view_or_invalid
  \/ cli_exit

\* =============================================================== todo.py

\* save_tasks of todo.py (the `save` every front end is handed): nothing is
\* caught, so a failed write leaves as an exception
gui_save_tasks(recs, o) ==
  /\ file' = Written(recs, o)
  /\ fails' = Failed(o)

Raised(o) == o # "ok"

match_cli_option(value, options) ==
  IF ~Truthy(value) THEN None
  ELSE LET normalized == Lower(Strip(value))
           Same(option)  == Lower(option) = normalized
           First(option) == FirstChar(Lower(option)) = normalized
           FirstAt(opts, P(_)) ==
             CHOOSE i \in DOMAIN opts :
               P(opts[i]) /\ \A j \in 1..(i - 1) : ~P(opts[j])
       IN IF \E i \in DOMAIN options : Same(options[i])
            THEN options[FirstAt(options, Same)]
          ELSE IF IsOneChar(normalized) /\ \E i \in DOMAIN options : First(options[i])
            THEN options[FirstAt(options, First)]
          ELSE None

RECURSIVE prompt_cli_option(_, _, _, _)
prompt_cli_option(options, default_value, current_value, inputs) ==
  LET blank == IF current_value # None THEN current_value ELSE default_value IN
  IF inputs = <<>> THEN blank
  ELSE LET response == Strip(Head(inputs)) IN
       IF response = "" THEN blank
       ELSE IF match_cli_option(response, options) # None
         THEN match_cli_option(response, options)
         ELSE prompt_cli_option(options, default_value, current_value, Tail(inputs))

prompt_category_cli(current_value, inputs) ==
  prompt_cli_option(CATEGORY_OPTIONS, DEFAULT_CATEGORY, current_value, inputs)

prompt_priority_cli(current_value, inputs) ==
  prompt_cli_option(PRIORITY_LEVELS, DEFAULT_PRIORITY, current_value, inputs)

\* ------------------------------------------------------- what the user does
\* run_cli, choice 1: title, description, category answers, priority answers
TodoAddInputs ==
  { [title |-> "",  desc |-> "",  cats |-> <<"">>, pris |-> <<" ">>],
    [title |-> "a", desc |-> "a", cats |-> <<"zzz", "W">>, pris |-> <<"High">>] }

\* edit_task_cli: the menu choices in turn, each with the text typed after it
Step(choice, text, answers) == [choice |-> choice, text |-> text, answers |-> answers]
TodoEditScripts ==
  { <<Step("C", "", <<>>)>>,
    <<Step("1", "b", <<>>), Step("4", "", <<"zzz", "L">>), Step("cancel", "", <<>>)>>,
    <<Step("1", " ", <<>>), Step("2", "", <<>>), Step("3", "", <<"">>),
      Step("4", "", <<" ">>), Step("9", "", <<>>), Step("S", "", <<>>)>>,
    <<Step("1", "b", <<>>), Step("2", "b", <<>>), Step("3", "", <<"p">>),
      Step("4", "", <<"zzz", "L">>), Step("save", "", <<>>)>> }

\* TaskFormDialog: each press of Save with the form as filled in, or Cancel;
\* Keep stands for a field left as the dialog showed it
Keep   == "<keep>"
Cancel == [save |-> FALSE, title |-> Keep, description |-> Keep,
           category |-> Keep, priority |-> Keep]
Form(title, description, category, priority) ==
  [save |-> TRUE, title |-> title, description |-> description,
   category |-> category, priority |-> priority]
GuiAddDialogs ==
  { <<Cancel>>,
    <<Form(" ", "a", Keep, Keep), Cancel>>,
    <<Form(" ", Keep, Keep, Keep), Form(" a ", Keep, "Work", Keep)>> }
GuiEditDialogs ==
  { <<Cancel>>,
    <<Form(Keep, Keep, Keep, Keep)>>,
    <<Form(" ", Keep, Keep, Keep), Form("b", " a ", "Personal", "low")>> }

\* ---------------------------------------------------------------- start-up
\* python todo.py: load, convert every record to a Task, show the start-up window
todo_main ==
  /\ pc = "off" \/ (pc \in Stopped /\ prog = "todo")
  /\ prog' = "todo"
  /\ \E now \in Minutes :
       /\ now >= clock
       /\ clock' = now
  /\ LET r == gui_load_tasks(file) IN
       IF r.raised \/ ~r.isList
         THEN /\ pc' = "crashed"
              /\ tasks' = <<>>
              /\ out' = "Traceback"
              /\ assigned' = assigned
         ELSE /\ pc' = "startup"
              /\ tasks' = FromDicts(r.recs, clock')
              /\ out' = "Choose how you want to get things done."
              /\ assigned' = assigned \cup Ids(r.recs)
  /\ idIn' = NoInput
  /\ UNCHANGED <<call, file, fails>>

\* StartupWindow.launch_gui, launch_gui_app, TodoGUI.__init__ and its refresh:
\* the tree takes str(task.id) as item id, and a second item of the same id is
\* refused with TclError, which leaves the callback with the window built
launch_gui ==
  /\ pc = "startup"
  /\ pc' = "gui"
  /\ out' = IF Cardinality(Ids(tasks)) < Len(tasks) THEN "Traceback"
            ELSE "To-Do List Manager"
  /\ idIn' = NoInput
  /\ UNCHANGED <<call, file, prog, tasks, clock, fails, assigned>>

\* StartupWindow.launch_cli and TodoGUI.switch_to_cli: the window is destroyed
\* and run_cli is called with the same list and save function
launch_cli ==
  /\ pc = "startup"
  /\ pc' = "menu"
  /\ out' = "1. Add Task"
  /\ idIn' = NoInput
  /\ UNCHANGED <<call, file, prog, tasks, clock, fails, assigned>>

\* a switch that starts the text menu on a list of its own
switch_to_cli_fresh ==
  /\ pc = "gui"
  /\ pc' = "menu"
  /\ tasks' = <<>>
  /\ out' = "1. Add Task"
  /\ idIn' = NoInput
  /\ UNCHANGED <<call, file, prog, clock, fails, assigned>>

switch_to_cli ==
  /\ pc = "gui"
  /\ pc' = "menu"
  /\ out' = "1. Add Task"
  /\ idIn' = NoInput
  /\ UNCHANGED <<call, file, prog, tasks, clock, fails, assigned>>

\* the user closes the start-up or the main window: mainloop returns
close_window ==
  /\ pc \in {"startup", "gui"}
  /\ pc' = "exited"
  /\ out' = ""
  /\ idIn' = NoInput
  /\ UNCHANGED <<call, file, prog, tasks, clock, fails, assigned>>

\* ----------------------------------------------------------------- run_cli
InTodoMenu == pc = "menu" /\ prog = "todo"

\* a save inside run_cli: an exception ends the menu loop
todo_saved(o, msg) ==
  /\ gui_save_tasks(ToDicts(tasks'), o)
  /\ pc' = IF Raised(o) THEN "crashed" ELSE pc
  /\ out' = IF Raised(o) THEN "Traceback" ELSE msg

todo_new_task(ts, in, now) ==
  Task(next_task_id(ToDicts(ts)), in.title, in.desc,
       prompt_category_cli(None, in.cats), prompt_priority_cli(None, in.pris),
       FALSE, now)

todo_add ==
  /\ InTodoMenu
  /\ \E in \in TodoAddInputs, o \in WriteOutcomes :
       LET t == todo_new_task(tasks, in, clock) IN
       /\ Len(tasks) < MaxTasks
       /\ t.id <= MaxId
       /\ tasks' = Append(tasks, t)
       /\ todo_saved(o, "Task added.")
       /\ assigned' = assigned \cup {t.id}
  /\ idIn' = NoInput
  /\ UNCHANGED <<call, prog, clock>>

RECURSIVE edit_loop(_, _)
edit_loop(pending, steps) ==
  IF steps = <<>> THEN [saved |-> FALSE, pending |-> pending]
  ELSE LET st == Head(steps)
           choice == Lower(Strip(st.choice))
           text == Strip(st.text)
       IN CASE choice = "1" ->
                 edit_loop(IF text # "" THEN [pending EXCEPT !.title = text]
                           ELSE pending, Tail(steps))
            [] choice = "2" ->
                 edit_loop(IF text # "" THEN [pending EXCEPT !.description = text]
                           ELSE pending, Tail(steps))
            [] choice = "3" ->
                 edit_loop([pending EXCEPT !.category =
                              prompt_category_cli(pending.category, st.answers)],
                           Tail(steps))
            [] choice = "4" ->
                 edit_loop([pending EXCEPT !.priority =
                              prompt_priority_cli(pending.priority, st.answers)],
                           Tail(steps))
            [] choice \in {"s", "save"} -> [saved |-> TRUE, pending |-> pending]
            [] choice \in {"c", "cancel"} -> [saved |-> FALSE, pending |-> pending]
            [] OTHER -> edit_loop(pending, Tail(steps))

todo_edited(task, script) ==
  LET r == edit_loop([title |-> task.title, description |-> task.description,
                      category |-> task.category, priority |-> task.priority],
                     script)
  IN [saved |-> r.saved,
      task  |-> [task EXCEPT !.title = r.pending.title,
                             !.description = r.pending.description,
                             !.category = r.pending.category,
                             !.priority = r.pending.priority]]

edit_task_cli ==
  /\ InTodoMenu
  /\ \E typed \in IdInputs :
       LET n == ParseInt(typed) IN
       /\ idIn' = typed
       /\ IF ~n.ok
            THEN /\ out' = "Please enter a valid numeric task ID."
                 /\ NoSave
                 /\ UNCHANGED <<tasks, pc>>
          ELSE IF FindTask(tasks, n.val) = 0
            THEN /\ out' = "Task not found."
                 /\ NoSave
                 /\ UNCHANGED <<tasks, pc>>
          ELSE \E script \in TodoEditScripts :
                 LET at == FindTask(tasks, n.val)
                     e == todo_edited(tasks[at], script)
                 IN IF e.saved
                      THEN \E o \in WriteOutcomes :
                             /\ tasks' = [tasks EXCEPT ![at] = e.task]
                             /\ todo_saved(o, "Task updated and saved.")
                      ELSE /\ out' = "Edit cancelled. No changes saved."
                           /\ NoSave
                           /\ UNCHANGED <<tasks, pc>>
  /\ UNCHANGED <<call, prog, clock, assigned>>

todo_mark ==
  /\ InTodoMenu
  /\ \E typed \in IdInputs :
       LET n == ParseInt(typed) IN
       /\ idIn' = typed
       /\ IF ~n.ok
            THEN /\ out' = "Please enter a valid numeric task ID."
                 /\ NoSave
                 /\ UNCHANGED <<tasks, pc>>
          ELSE IF FindTask(tasks, n.val) = 0
            THEN /\ out' = "Task not found."
                 /\ NoSave
                 /\ UNCHANGED <<tasks, pc>>
          ELSE \E o \in WriteOutcomes :
                 /\ tasks' = [tasks EXCEPT ![FindTask(tasks, n.val)].completed = TRUE]
                 /\ todo_saved(o, "Task marked as completed.")
  /\ UNCHANGED <<call, prog, clock, assigned>>

todo_delete ==
  /\ InTodoMenu
  /\ \E typed \in IdInputs :
       LET n == ParseInt(typed) IN
       /\ idIn' = typed
       /\ IF ~n.ok
            THEN /\ out' = "Please enter a valid numeric task ID."
                 /\ NoSave
                 /\ UNCHANGED <<tasks, pc>>
          ELSE IF Len(RemoveId(tasks, n.val)) < Len(tasks)
            THEN \E o \in WriteOutcomes :
                   /\ tasks' = RemoveId(tasks, n.val)
                   /\ todo_saved(o, "Task deleted.")
            ELSE /\ out' = "Task not found."
                 /\ NoSave
                 /\ UNCHANGED <<tasks, pc>>
  /\ UNCHANGED <<call, prog, clock, assigned>>

\* choice 2 (view) and any unknown choice: nothing but output
todo_view_or_invalid ==
  /\ InTodoMenu
  /\ \E choice \in {"2", "7"} :
       out' = IF choice # "2" THEN "Invalid option"
              ELSE IF tasks = <<>> THEN "No tasks available." ELSE "[id] title"
  /\ NoSave
  /\ idIn' = NoInput
  /\ UNCHANGED <<call, prog, pc, tasks, clock, assigned>>

\* choice 6: save, then break
todo_exit ==
  /\ InTodoMenu
  /\ \E o \in WriteOutcomes :
       /\ gui_save_tasks(ToDicts(tasks), o)
       /\ pc' = IF Raised(o) THEN "crashed" ELSE "exited"
       /\ out' = IF Raised(o) THEN "Traceback" ELSE "Changes saved. Goodbye!"
  /\ idIn' = NoInput
  /\ UNCHANGED <<call, prog, tasks, clock, assigned>>

TodoCliNext ==
  \/ todo_add
  \/ edit_task_cli
  \/ todo_mark
  \/ todo_delete
  \/ todo_view_or_invalid
  \/ todo_exit

\* ----------------------------------------------------------------- TodoGUI
InGui == pc = "gui" /\ prog = "todo"

\* TaskFormDialog.on_save over the presses of one dialog: an empty title keeps
\* the dialog open, Cancel or closing it leaves result None
RECURSIVE dialog_result(_, _)
dialog_result(initial, presses) ==
  IF presses = <<>> \/ ~Head(presses).save THEN [ok |-> FALSE]
  ELSE LET form == Head(presses)
           Field(shown, typed) == IF typed = Keep THEN shown ELSE typed
           title == Strip(Field(initial.title, form.title))
           description == Strip(Field(initial.description, form.description))
           cat == Strip(Field(initial.category, form.category))
           pri == Strip(Field(initial.priority, form.priority))
       IN IF title = "" THEN dialog_result(initial, Tail(presses))
          ELSE [ok |-> TRUE, title |-> title, description |-> description,
                category |-> IF cat = "" THEN DEFAULT_CATEGORY ELSE cat,
                priority |-> normalize_priority(
                               IF pri = "" THEN DEFAULT_PRIORITY ELSE pri)]

BlankForm == [title |-> "", description |-> "", category |-> DEFAULT_CATEGORY,
              priority |-> DEFAULT_PRIORITY]

\* a save inside a button handler: an exception leaves the handler before
\* refresh and the message box, and Tk reports it and carries on
gui_saved(o, msg) ==
  /\ gui_save_tasks(ToDicts(tasks'), o)
  /\ out' = IF Raised(o) \/ Cardinality(Ids(tasks')) < Len(tasks')
              THEN "Traceback" ELSE msg

gui_add_task ==
  /\ InGui
  /\ \E presses \in GuiAddDialogs :
       LET data == dialog_result(BlankForm, presses) IN
       IF ~data.ok
         THEN /\ out' = "Add Task"
              /\ NoSave
              /\ UNCHANGED <<tasks, assigned>>
         ELSE \E o \in WriteOutcomes :
                LET new_task == Task(next_task_id(ToDicts(tasks)), data.title,
                                     data.description, data.category,
                                     data.priority, FALSE, clock)
                IN /\ Len(tasks) < MaxTasks
                   /\ new_task.id <= MaxId
                   /\ tasks' = Append(tasks, new_task)
                   /\ gui_saved(o, "Task Added")
                   /\ assigned' = assigned \cup {new_task.id}
  /\ idIn' = NoInput
  /\ UNCHANGED <<call, prog, pc, clock>>

\* get_selected: the tree's selected item id, 0 when no row is selected
Selections == {0} \cup Ids(tasks)

gui_edit_task ==
  /\ InGui
  /\ \E sel \in Selections :
       IF FindTask(tasks, sel) = 0
         THEN /\ out' = "No task selected."
              /\ NoSave
              /\ UNCHANGED tasks
         ELSE \E presses \in GuiEditDialogs :
                LET at == FindTask(tasks, sel)
                    t == tasks[at]
                    data == dialog_result([title |-> t.title,
                                           description |-> t.description,
                                           category |-> t.category,
                                           priority |-> t.priority], presses)
                IN IF ~data.ok
                     THEN /\ out' = "Edit Task"
                          /\ NoSave
                          /\ UNCHANGED tasks
                     ELSE \E o \in WriteOutcomes :
                            /\ tasks' = [tasks EXCEPT ![at] =
                                 [t EXCEPT !.title = data.title,
                                           !.description = data.description,
                                           !.category = data.category,
                                           !.priority = data.priority]]
                            /\ gui_saved(o, "Task Updated")
  /\ idIn' = NoInput
  /\ UNCHANGED <<call, prog, pc, clock, assigned>>

gui_delete_task ==
  /\ InGui
  /\ \E sel \in Selections :
       IF FindTask(tasks, sel) = 0
         THEN /\ out' = "No task selected."
              /\ NoSave
              /\ UNCHANGED tasks
         ELSE \E yes \in BOOLEAN :
                IF yes
                  THEN \E o \in WriteOutcomes :
                         /\ tasks' = RemoveAt(tasks, FindTask(tasks, sel))
                         /\ gui_saved(o, "Task Deleted")
                  ELSE /\ out' = "Confirm"
                       /\ NoSave
                       /\ UNCHANGED tasks
  /\ idIn' = NoInput
  /\ UNCHANGED <<call, prog, pc, clock, assigned>>

gui_update_status ==
  /\ InGui
  /\ \E sel \in Selections :
       IF FindTask(tasks, sel) = 0
         THEN /\ out' = "No task selected."
              /\ NoSave
              /\ UNCHANGED tasks
         ELSE \E mark_complete \in BOOLEAN, o \in WriteOutcomes :
                /\ tasks' = [tasks EXCEPT
                               ![FindTask(tasks, sel)].completed = mark_complete]
                /\ gui_saved(o, "Status Updated")
  /\ idIn' = NoInput
  /\ UNCHANGED <<call, prog, pc, clock, assigned>>

gui_clear_all_tasks ==
  /\ InGui
  /\ IF tasks = <<>>
       THEN /\ out' = "There are no tasks to clear."
            /\ NoSave
            /\ UNCHANGED tasks
       ELSE \E yes \in BOOLEAN :
              IF yes
                THEN \E o \in WriteOutcomes :
                       /\ tasks' = <<>>
                       /\ gui_saved(o, "Cleared")
                ELSE /\ out' = "Clear All Tasks"
                     /\ NoSave
                     /\ UNCHANGED tasks
  /\ idIn' = NoInput
  /\ UNCHANGED <<call, prog, pc, clock, assigned>>

GuiNext ==
  \/ gui_add_task
  \/ gui_edit_task
  \/ gui_delete_task
  \/ gui_update_status
  \/ gui_clear_all_tasks

Next == CliNext \/ todo_main \/ launch_gui \/ launch_cli \/ switch_to_cli
          \/ close_window \/ TodoCliNext \/ GuiNext

Spec == Init /\ [][Next]_vars

\* ==================================================== functions on their own
\* datetime.strptime(s, "%Y-%m-%d").date() as days since 2024-02-26; a string
\* that is no date of the calendar raises ValueError
Calendar ==
  << <<"2024-02-27", 1>>, <<"2024-02-29", 3>>, <<"2024-03-01", 4>>,
     <<"2024-3-1", 4>>, <<"2024-03-02", 5>>, <<"2024-03-05", 8>> >>

strptime(s) ==
  IF \E i \in DOMAIN Calendar : Calendar[i][1] = s
    THEN [ok |-> TRUE,
          day |-> Calendar[CHOOSE i \in DOMAIN Calendar : Calendar[i][1] = s][2]]
    ELSE [ok |-> FALSE, day |-> 0]

\* timedelta(days=3)
DueSoonDays == 3

\* a due-soon window that ends before its last day
RECURSIVE due_soon_exclusive(_, _)
due_soon_exclusive(ts, today) ==
  IF ts = <<>> THEN <<>>
  ELSE LET rest == due_soon_exclusive(Tail(ts), today)
           d == strptime(Head(ts).due_date)
       IN IF Truthy(Head(ts).due_date) /\ d.ok /\ today <= d.day
             /\ d.day < today + DueSoonDays
            THEN <<Head(ts)>> \o rest
            ELSE rest

\* filter_tasks of todo_cli.py; `today` is date.today()
RECURSIVE cli_due_soon(_, _)
cli_due_soon(ts, today) ==
  IF ts = <<>> THEN <<>>
  ELSE LET task == Head(ts)
           rest == cli_due_soon(Tail(ts), today)
           soon == today + DueSoonDays
       IN IF ~Truthy(task.due_date) THEN rest
          ELSE IF ~strptime(task.due_date).ok THEN rest
          ELSE IF today <= strptime(task.due_date).day
                  /\ strptime(task.due_date).day <= soon
            THEN <<task>> \o rest
          ELSE rest

cli_filter_tasks(ts, filter_option, today) ==
  CASE filter_option = "completed" -> SelectSeq(ts, LAMBDA task : task.completed)
    [] filter_option = "pending"   -> SelectSeq(ts, LAMBDA task : ~task.completed)
    [] filter_option = "due-soon"  -> cli_due_soon(ts, today)
    [] OTHER                       -> ts

\* filter_tasks of todo.py: the same loop with the range test inside the try
RECURSIVE gui_due_soon(_, _)
gui_due_soon(ts, today) ==
  IF ts = <<>> THEN <<>>
  ELSE LET t == Head(ts)
           rest == gui_due_soon(Tail(ts), today)
           soon == today + DueSoonDays
           d == strptime(t.due_date)
       IN IF ~Truthy(t.due_date) THEN rest
          ELSE IF d.ok /\ today <= d.day /\ d.day <= soon THEN <<t>> \o rest
          ELSE rest

gui_filter_tasks(ts, mode, today) ==
  CASE mode = "completed" -> SelectSeq(ts, LAMBDA t : t.completed)
    [] mode = "pending"   -> SelectSeq(ts, LAMBDA t : ~t.completed)
    [] mode = "due-soon"  -> gui_due_soon(ts, today)
    [] OTHER              -> ts

\* ------------------------------------------------------------ the arguments
SeqsUpTo(S, n) == UNION {[1..k -> S] : k \in 0..n}

\* collections for next_task_id: ids in any order, repeated or not
ArgIds == 1..(MaxLen + 1)
IdCollections ==
  { [i \in DOMAIN ids |-> Dict(ids[i], Absent, "a", Absent, "medium", FALSE, None, 0)] :
      ids \in SeqsUpTo(ArgIds, MaxLen) }

\* collections for filter_tasks: the task at position i has id i
DueValues ==
  {Absent, None, "", "bad", "2024-02-30"} \cup {Calendar[i][1] : i \in DOMAIN Calendar}
DueCollections ==
  { [i \in DOMAIN dues |-> Dict(i, Absent, "a", Absent, "medium", FALSE, dues[i], 0)] :
      dues \in SeqsUpTo(DueValues, MaxLen) }
Days == 0..MaxDay

\* values for normalize_priority: a missing key, null, strings
PriorityValues ==
  {Absent, None, "", "low", "medium", "high", "LOW", "MEDIUM", "Medium", "HIGH",
   "High", "urgent", "zzz", " high ", "h"}

CallArgs ==
  {[fn |-> "next_task_id", program |-> "both", tasks |-> ds, done |-> FALSE] :
     ds \in IdCollections}
  \cup {[fn |-> "filter_tasks", program |-> p, tasks |-> ds, mode |-> "due-soon",
         today |-> d, done |-> FALSE] :
          p \in {"todo_cli", "todo"}, ds \in DueCollections, d \in Days}
  \cup {[fn |-> "normalize_priority", program |-> "todo", value |-> v, done |-> FALSE] :
          v \in PriorityValues}

CallInit ==
  /\ call \in CallArgs
  /\ file = NoFile("absent")
  /\ prog = "todo_cli"
  /\ pc = "off"
  /\ tasks = <<>>
  /\ clock = 0
  /\ fails = 0
  /\ out = ""
  /\ idIn = NoInput
  /\ assigned = {}

Program == <<file, prog, pc, tasks, clock, fails, out, idIn, assigned>>

call_next_task_id ==
  /\ call.fn = "next_task_id" /\ ~call.done
  /\ call' = [fn |-> call.fn, program |-> call.program, tasks |-> call.tasks,
              done |-> TRUE, result |-> next_task_id(call.tasks)]
  /\ UNCHANGED Program

call_filter_tasks ==
  /\ call.fn = "filter_tasks" /\ ~call.done
  /\ call' = [fn |-> call.fn, program |-> call.program, tasks |-> call.tasks,
              mode |-> call.mode, today |-> call.today, done |-> TRUE,
              result |-> IF call.program = "todo_cli"
                           THEN cli_filter_tasks(call.tasks, call.mode, call.today)
                           ELSE gui_filter_tasks(call.tasks, call.mode, call.today)]
  /\ UNCHANGED Program

\* normalize_priority, and normalize_priority again on what it returned
call_normalize_priority ==
  /\ call.fn = "normalize_priority" /\ ~call.done
  /\ call' = [fn |-> call.fn, program |-> call.program, value |-> call.value,
              done |-> TRUE, result |-> normalize_priority(call.value),
              again |-> normalize_priority(normalize_priority(call.value))]
  /\ UNCHANGED Program

CallNext == call_next_task_id \/ call_filter_tasks \/ call_normalize_priority

CallSpec == CallInit /\ [][CallNext]_vars

\* ================================================================ properties
Running == pc \notin Stopped

\* the collection as save writes it: todo_cli.py holds dictionaries, todo.py
\* converts its Task objects
AsDicts(ts) == IF prog = "todo_cli" THEN ts ELSE ToDicts(ts)

\* a handler of a running front end appended a task
Added == Running /\ Len(tasks') = Len(tasks) + 1
NewTask == tasks'[Len(tasks')]

\* C1: an id a task of the store has held is never given to a task added later,
\* also after the task that held it was deleted.
IdsNeverReused == [][Added => NewTask.id \notin assigned]_vars

\* C2: no two tasks of the in-memory store have the same id.
UniqueIds == Cardinality(Ids(tasks)) = Len(tasks)

\* C3: every task of the in-memory store has priority low, medium or high.
PriorityCanonical ==
  \A i \in DOMAIN tasks : tasks[i].priority \in SeqToSet(PRIORITY_LEVELS)

\* C4: the created_at of a task never changes: not in memory while a front end
\* runs, and not in the backing file from one write to the next, a restart with
\* its load and the save after it included.
SameCreatedAt(before, after) ==
  \A i \in DOMAIN before, j \in DOMAIN after :
    before[i].id = after[j].id => before[i].created_at = after[j].created_at

CreatedAtImmutable ==
  [][/\ Running /\ pc' \notin Stopped => SameCreatedAt(tasks, tasks')
     /\ SameCreatedAt(file.recs, file'.recs)]_vars

\* C5: whenever a front end waits for input and no write has failed, the records
\* of the backing file equal the in-memory collection.
FileMirrorsMemory ==
  (pc \in {"startup", "gui", "menu"} /\ fails = 0) => file.recs = AsDicts(tasks)

\* C6: a handler whose write of the backing file fails neither lets the
\* exception out nor ends the front end.
SaveFailureContained ==
  [][(Running /\ file'.kind = "badjson" /\ file' # file)
       => (pc' = pc /\ out' # "Traceback")]_vars

\* C7: starting with a backing file that is absent, unreadable or malformed
\* (no JSON, or JSON that is no list) gives the empty collection and no exception.
LoadDegradesToEmpty ==
  [][(pc \in Stopped /\ file.kind # "list")
       => (pc' # "crashed" /\ tasks' = <<>>)]_vars

\* C8: in the text front end an edit, mark-complete or delete given an id that is
\* not a number, or that no task has, reports it and changes neither the
\* collection nor the backing file.
AbortReports ==
  {"Invalid ID.", "Please enter a valid numeric task ID.", "Task not found."}

BadId(typed, ts) ==
  \/ ~ParseInt(typed).ok
  \/ \A i \in DOMAIN ts : ts[i].id # ParseInt(typed).val

BadIdAborts ==
  [][(pc = "menu" /\ idIn' # NoInput /\ BadId(idIn', tasks))
       => (tasks' = tasks /\ file' = file /\ pc' = pc /\ out' \in AbortReports)]_vars

\* C8 witness: the text menu has just answered an id no task has, with a task
\* in the store
BadIdAborted ==
  /\ pc = "menu"
  /\ tasks # <<>>
  /\ idIn # NoInput
  /\ ParseInt(idIn).ok
  /\ BadId(idIn, tasks)
  /\ out = "Task not found."

\* C9: no add creates a task whose title and description are both empty.
AddNeedsText ==
  [][Added => (Truthy(NewTask.title) \/ Truthy(NewTask.description))]_vars

\* C10: choosing exit in the text menu writes the full collection to the backing
\* file before the menu loop ends.
ExitSaves ==
  [][(pc = "menu" /\ pc' = "exited") => file' = ListFile(AsDicts(tasks))]_vars

\* C11: next_task_id gives 1 for the empty collection and otherwise an integer
\* above the id of every task of the collection.
NextIdAboveAll ==
  (call.fn = "next_task_id" /\ call.done) =>
    IF call.tasks = <<>> THEN call.result = 1
    ELSE /\ call.result \in Int
         /\ \A i \in DOMAIN call.tasks : call.result > call.tasks[i].id

\* C11 witness: called on ids 3, 1 in this order, the answer was 4
NextIdCalled ==
  /\ call.fn = "next_task_id" /\ call.done
  /\ Len(call.tasks) = 2
  /\ call.tasks[1].id = 3 /\ call.tasks[2].id = 1
  /\ call.result = 4

\* C12: a start on a backing file of well-formed records that a save wrote gives
\* an in-memory collection which, written out again, equals the file record for
\* record and field for field.
WellFormed(recs) ==
  /\ Cardinality(Ids(recs)) = Len(recs)
  /\ \A i \in DOMAIN recs : /\ recs[i].priority \in SeqToSet(PRIORITY_LEVELS)
                            /\ recs[i].completed \in BOOLEAN

RoundTripEqual ==
  [][(pc \in Stopped /\ pc' \notin Stopped /\ file.kind = "list"
      /\ WellFormed(file.recs))
       => AsDicts(tasks)' = file.recs]_vars

\* C13: filter_tasks with mode due-soon returns, in their order, exactly the
\* tasks whose due_date is a date of the calendar from today to today + 3 days;
\* a task without due_date or with one that is no date is left out.
InDueSoonWindow(task, today) ==
  \E i \in DOMAIN Calendar :
    /\ Calendar[i][1] = task.due_date
    /\ today <= Calendar[i][2]
    /\ Calendar[i][2] <= today + 3

DueSoonExact ==
  (call.fn = "filter_tasks" /\ call.done /\ call.mode = "due-soon") =>
    call.result = SelectSeq(call.tasks, LAMBDA task : InDueSoonWindow(task, call.today))

\* C13 witness: on 2024-02-27 a task due 2024-03-01, the last day of the range,
\* was returned and the task before it, whose due_date is no date, was not
DueSoonCalled ==
  /\ call.fn = "filter_tasks" /\ call.done /\ call.mode = "due-soon"
  /\ call.program = "todo_cli"
  /\ call.today = 1
  /\ Len(call.tasks) = 2
  /\ call.tasks[1].due_date = "bad"
  /\ call.tasks[2].due_date = "2024-03-01"
  /\ call.result = <<call.tasks[2]>>

\* C14: normalize_priority answers low, medium or high for every value; a level
\* in any letter case gives that level, every other value gives medium, and
\* normalize_priority of the answer is the answer.
CaseVariants(level) ==
  CASE level = "low"    -> {"low", "LOW"}
    [] level = "medium" -> {"medium", "MEDIUM", "Medium"}
    [] level = "high"   -> {"high", "HIGH", "High"}

NormalizeTotalIdempotent ==
  (call.fn = "normalize_priority" /\ call.done) =>
    /\ call.result \in {"low", "medium", "high"}
    /\ \A level \in {"low", "medium", "high"} :
         call.value \in CaseVariants(level) => call.result = level
    /\ (\A level \in {"low", "medium", "high"} : call.value \notin CaseVariants(level))
         => call.result = "medium"
    /\ call.again = call.result

\* C14 witness: HIGH was normalised to high
NormalizeCalled ==
  /\ call.fn = "normalize_priority" /\ call.done
  /\ call.value = "HIGH"
  /\ call.result = "high"
  /\ call.again = "high"

\* C15: a mark-complete of the text menu that succeeds leaves its task out of
\* filter pending and in filter completed, and every later step of the text
\* menu keeps each completed task so unless it deletes it.
FilterOf(p, ts, mode) ==
  IF p = "todo_cli" THEN SeqToSet(cli_filter_tasks(ts, mode, 0))
  ELSE SeqToSet(gui_filter_tasks(ToDicts(ts), mode, 0))

AsDict(p, task) == IF p = "todo_cli" THEN task ELSE to_dict(task)

ShownCompleted(p, ts, i) ==
  /\ ts[i].completed
  /\ AsDict(p, ts[i]) \in FilterOf(p, ts, "completed")
  /\ AsDict(p, ts[i]) \notin FilterOf(p, ts, "pending")

ModeTransitions ==
  [][/\ pc = "startup" => /\ pc' \in {"startup", "gui", "menu", "exited"}
                          /\ tasks' = tasks
                          /\ file' = file
     /\ pc = "gui" => pc' \in {"gui", "menu", "exited"}
     /\ pc = "menu" => pc' \in {"menu", "exited", "crashed"}
     /\ (pc = "gui" /\ pc' = "menu") => tasks' = tasks
     /\ pc \in Stopped => /\ pc' # "gui"
                          /\ file' = file
                          /\ pc' = "menu" => prog' = "todo_cli"]_vars

\* C16 witness: the text menu of todo.py has just been entered with a pending
\* task of empty description, which only the window can have produced
SwitchedToText ==
  /\ pc = "menu" /\ prog = "todo"
  /\ out = "1. Add Task"
  /\ Len(tasks) = 1
  /\ tasks[1].title = "a"
  /\ tasks[1].description = ""
  /\ ~tasks[1].completed

\* C17: an edit of the text menu changes the collection or the backing file only
\* when the user chose save in it, a cancelled edit changes neither, and blank
\* input for every field followed by save leaves the task as it was.
EditReports ==
  {"Task updated.", "Task updated and saved.", "Edit cancelled. No changes saved."}

BlankCliEdit == [desc |-> " ", dues |-> <<"">>, change |-> "", pris |-> <<>>]
BlankTodoEdit ==
  <<Step("1", " ", <<>>), Step("2", "", <<>>), Step("3", "", <<"">>),
    Step("4", "", <<" ">>), Step("S", "", <<>>)>>

EditOnlyOnSave ==
  [][(pc = "menu" /\ pc' = "menu" /\ out' \in EditReports) =>
       /\ (tasks' # tasks \/ file' # file) => out' = "Task updated and saved."
       /\ \A i \in DOMAIN tasks :
            IF prog = "todo_cli" THEN cli_edited(tasks[i], BlankCliEdit) = tasks[i]
            ELSE /\ todo_edited(tasks[i], BlankTodoEdit).saved
                 /\ todo_edited(tasks[i], BlankTodoEdit).task = tasks[i]]_vars

====
